---- MODULE Spec2Model ----
(***************************************************************************)
(* Model of integrador.py: a country catalog kept in a list of dicts,      *)
(* loaded from and written through to paises.csv, driven by a menu loop.  *)
(*                                                                         *)
(* A Python str is a sequence of one-character tokens ("P", "e", ...);     *)
(* the precomposed letter u-acute is the token "u_acute", the combining    *)
(* acute accent U+0301 is "comb_acute", the superscript two U+00B2 is      *)
(* "sup2".  A missing CSV field (csv.DictReader's restval None) is the     *)
(* value None.                                                             *)
(***************************************************************************)
EXTENDS Integers, Sequences, FiniteSets, TLC

VARIABLES
    pc,         \* "inicio" (before menu() runs), "bucle" (top of the while loop),
                \* "opcion" (at the option prompt), "terminado"
    catalog,    \* paises_catalogo: sequence of records
    archivo,    \* paises.csv: [existe, filas], filas the rows after the header
    opcion,     \* the option read in this round of the loop ("" until it is read)
    sub,        \* the sort sub-menu choice read in this round ("" when none was)
    entrada,    \* the text typed at the name prompt in this round (<<>> when none)
    mensaje,    \* the last message printed, or the uncaught exception's name
    mostrado,   \* the records printed by the last command
    stats       \* what estadisticas printed: <<>> or one record

vars == <<pc, catalog, archivo, opcion, sub, entrada, mensaje, mostrado, stats>>

\* ------------------------------------------------------------ bounds

MaxPaises == 2
MaxFilas == 2
MaxLista == 3

\* ------------------------------------------------------------ strings

None == <<"None">>

Reverse(s) == [i \in 1..Len(s) |-> s[Len(s) + 1 - i]]

EsEspacio(c) == c = " "

Digitos == {"0", "1", "2", "3", "4", "5", "6", "7", "8", "9"}

\* str.lower, one character
Minuscula(c) ==
    CASE c = "I" -> "i"
      [] c = "P" -> "p"
      [] c = "A" -> "a"
      [] OTHER -> c

lower(s) == [i \in 1..Len(s) |-> Minuscula(s[i])]

RECURSIVE lstrip(_)
lstrip(s) ==
    IF s = <<>> THEN s
    ELSE IF EsEspacio(Head(s)) THEN lstrip(Tail(s)) ELSE s

strip(s) == Reverse(lstrip(Reverse(lstrip(s))))

\* the length of the longest prefix of s that holds no whitespace
RECURSIVE LargoPalabra(_)
LargoPalabra(s) ==
    IF s = <<>> \/ EsEspacio(Head(s)) THEN 0 ELSE 1 + LargoPalabra(Tail(s))

\* str.split(): the words between runs of whitespace
RECURSIVE split(_)
split(s) ==
    LET t == lstrip(s)
        k == LargoPalabra(t)
    IN  IF t = <<>> THEN <<>>
        ELSE <<SubSeq(t, 1, k)>> \o split(SubSeq(t, k + 1, Len(t)))

\* " ".join(words)
RECURSIVE join(_)
join(words) ==
    IF words = <<>> THEN <<>>
    ELSE IF Len(words) = 1 THEN words[1]
    ELSE words[1] \o <<" ">> \o join(Tail(words))

\* unicodedata.normalize('NFD', c) of one character
NFDChar(c) == IF c = "u_acute" THEN <<"u", "comb_acute">> ELSE <<c>>

RECURSIVE NFD(_)
NFD(s) == IF s = <<>> THEN <<>> ELSE NFDChar(Head(s)) \o NFD(Tail(s))

\* unicodedata.category(c) == 'Mn'
EsMn(c) == c = "comb_acute"

normalizar(texto) ==
    LET t == join(split(lower(strip(texto))))
    IN  SelectSeq(NFD(t), LAMBDA c : ~EsMn(c))

\* Python's  parte in s
Contiene(s, parte) ==
    \E i \in 0..(Len(s) - Len(parte)) : SubSeq(s, i + 1, i + Len(parte)) = parte

\* isdigit, had it let a sign through
isdigit_con_signo(s) ==
    s # <<>> /\ \A i \in DOMAIN s : s[i] \in Digitos \cup {"sup2", "-"}

\* str.isdigit: non-empty, every character a digit (superscript two is one)
isdigit(s) == s # <<>> /\ \A i \in DOMAIN s : s[i] \in Digitos \cup {"sup2"}

ValorDigito(c) ==
    CASE c = "0" -> 0 [] c = "1" -> 1 [] c = "2" -> 2 [] c = "3" -> 3
      [] c = "4" -> 4 [] c = "5" -> 5 [] c = "6" -> 6 [] c = "7" -> 7
      [] c = "8" -> 8 [] c = "9" -> 9

RECURSIVE ValorDecimal(_)
ValorDecimal(s) ==
    IF s = <<>> THEN 0
    ELSE 10 * ValorDecimal(SubSeq(s, 1, Len(s) - 1)) + ValorDigito(s[Len(s)])

\* int(s) raises ValueError unless s is, after strip, an optional sign and
\* decimal digits
SinSigno(s) == IF s # <<>> /\ s[1] \in {"-", "+"} THEN Tail(s) ELSE s

int_ok(s) ==
    LET d == SinSigno(strip(s))
    IN  d # <<>> /\ \A i \in DOMAIN d : d[i] \in Digitos

int(s) ==
    LET t == strip(s)
        v == ValorDecimal(SinSigno(t))
    IN  IF t[1] = "-" THEN 0 - v ELSE v

CaracterDigito(d) ==
    CASE d = 0 -> "0" [] d = 1 -> "1" [] d = 2 -> "2" [] d = 3 -> "3"
      [] d = 4 -> "4" [] d = 5 -> "5" [] d = 6 -> "6" [] d = 7 -> "7"
      [] d = 8 -> "8" [] d = 9 -> "9"

\* str(n) of an int, as csv.DictWriter writes it
RECURSIVE str(_)
str(n) ==
    IF n < 0 THEN <<"-">> \o str(0 - n)
    ELSE IF n < 10 THEN <<CaracterDigito(n)>>
    ELSE str(n \div 10) \o <<CaracterDigito(n % 10)>>

\* ------------------------------------------------------------ the CSV file

\* what the loop body of leer_archivo does with one row of csv.DictReader
FilaResultado(fila) ==
    IF fila.nombre = None \/ fila.nombre = <<>> THEN "descartada"
    ELSE IF fila.poblacion = None THEN "AttributeError"
    ELSE IF ~isdigit(fila.poblacion) THEN "descartada"
    ELSE IF fila.superficie = None THEN "AttributeError"
    ELSE IF ~isdigit(fila.superficie) THEN "descartada"
    ELSE IF ~int_ok(fila.poblacion) \/ ~int_ok(fila.superficie) THEN "ValueError"
    ELSE "aceptada"

FilaPais(fila) ==
    [nombre |-> fila.nombre,
     poblacion |-> int(fila.poblacion),
     superficie |-> int(fila.superficie),
     continente |-> fila.continente]

\* the exception leer_archivo raises on these rows, "" when it returns
RECURSIVE leer_error(_)
leer_error(filas) ==
    IF filas = <<>> THEN ""
    ELSE IF FilaResultado(Head(filas)) \in {"AttributeError", "ValueError"}
         THEN FilaResultado(Head(filas))
    ELSE leer_error(Tail(filas))

\* the list leer_archivo returns
RECURSIVE leer_archivo(_)
leer_archivo(filas) ==
    IF filas = <<>> THEN <<>>
    ELSE IF FilaResultado(Head(filas)) = "aceptada"
         THEN <<FilaPais(Head(filas))>> \o leer_archivo(Tail(filas))
    ELSE leer_archivo(Tail(filas))

\* the row written, had the population and area columns been exchanged
PaisFila_columnas_cambiadas(p) ==
    [nombre |-> p.nombre,
     poblacion |-> str(p.superficie),
     superficie |-> str(p.poblacion),
     continente |-> IF p.continente = None THEN <<>> ELSE p.continente]

\* the row csv.DictWriter writes for one dict: ints as decimal text, None as
\* the empty field
PaisFila(p) ==
    [nombre |-> p.nombre,
     poblacion |-> str(p.poblacion),
     superficie |-> str(p.superficie),
     continente |-> IF p.continente = None THEN <<>> ELSE p.continente]

\* the rows guardar_archivo writes
guardar_archivo(paises) == [i \in 1..Len(paises) |-> PaisFila(paises[i])]

\* the file after guardar_archivo(paises): written whole, left as it was when
\* open() raises, or left truncated when the write raises
ArchivoTras(paises, io) ==
    CASE io = "ok" -> [existe |-> TRUE, filas |-> guardar_archivo(paises)]
      [] io = "falla_abrir" -> archivo
      [] io = "falla_escribir" -> [existe |-> TRUE, filas |-> <<>>]

ResultadosIO == {"ok", "falla_abrir", "falla_escribir"}

\* ------------------------------------------------------------ catalog functions

Indices(s) == [i \in 1..Len(s) |-> i]

Elegir(s, idx) == [k \in 1..Len(idx) |-> s[idx[k]]]

\* buscar_pais, had it compared the names as typed
buscar_pais_sin_normalizar(paises, nombre) ==
    SelectSeq(Indices(paises), LAMBDA i : Contiene(paises[i].nombre, nombre))

\* buscar_pais, as the positions in paises of the dicts it returns
buscar_pais(paises, nombre) ==
    LET nombre_norm == normalizar(nombre)
    IN  SelectSeq(Indices(paises),
                  LAMBDA i : Contiene(normalizar(paises[i].nombre), nombre_norm))

\* the code point of a character, as str comparison uses it
Ord(c) ==
    CASE c = " " -> 32
      [] c = "I" -> 73 [] c = "P" -> 80 [] c = "A" -> 65
      [] c = "a" -> 97 [] c = "d" -> 100 [] c = "e" -> 101 [] c = "i" -> 105
      [] c = "n" -> 110 [] c = "p" -> 112 [] c = "r" -> 114 [] c = "s" -> 115
      [] c = "u" -> 117 [] c = "u_acute" -> 250 [] c = "comb_acute" -> 769

\* a < b on str
RECURSIVE MenorStr(_, _)
MenorStr(a, b) ==
    IF b = <<>> THEN FALSE
    ELSE IF a = <<>> THEN TRUE
    ELSE IF Ord(Head(a)) # Ord(Head(b)) THEN Ord(Head(a)) < Ord(Head(b))
    ELSE MenorStr(Tail(a), Tail(b))

clave_nombre(pais) == pais.nombre
clave_poblacion(pais) == pais.poblacion
clave_superficie(pais) == pais.superficie

\* key(p) < key(q) for the key function named clave
Menor(clave, p, q) ==
    CASE clave = "nombre" -> MenorStr(clave_nombre(p), clave_nombre(q))
      [] clave = "poblacion" -> clave_poblacion(p) < clave_poblacion(q)
      [] clave = "superficie" -> clave_superficie(p) < clave_superficie(q)

\* x put into the sorted s after every element that is not greater than it
RECURSIVE Insertar(_, _, _)
Insertar(x, s, clave) ==
    IF s = <<>> THEN <<x>>
    ELSE IF Menor(clave, x, Head(s)) THEN <<x>> \o s
    ELSE <<Head(s)>> \o Insertar(x, Tail(s), clave)

\* list.sort: stable, comparing keys with < only
RECURSIVE OrdenEstable(_, _)
OrdenEstable(s, clave) ==
    IF s = <<>> THEN <<>>
    ELSE Insertar(s[Len(s)], OrdenEstable(SubSeq(s, 1, Len(s) - 1), clave), clave)

\* sorted with reverse, had it sorted ascending and reversed the result
sorted_y_luego_invertir(s, clave, reverse) ==
    IF reverse THEN Reverse(OrdenEstable(s, clave))
    ELSE OrdenEstable(s, clave)

\* sorted(s, key=..., reverse=...): with reverse the list is reversed, sorted
\* and reversed again, which keeps equal keys in their original order
sorted(s, clave, reverse) ==
    IF reverse THEN Reverse(OrdenEstable(Reverse(s), clave))
    ELSE OrdenEstable(s, clave)

\* max, had it kept the last maximal element
RECURSIVE max_poblacion_ultimo(_)
max_poblacion_ultimo(s) ==
    IF Len(s) = 1 THEN s[1]
    ELSE LET m == max_poblacion_ultimo(SubSeq(s, 1, Len(s) - 1))
         IN  IF clave_poblacion(s[Len(s)]) >= clave_poblacion(m) THEN s[Len(s)] ELSE m

\* max(s, key=clave_poblacion) of a non-empty s: the first maximal element
RECURSIVE max_poblacion(_)
max_poblacion(s) ==
    IF Len(s) = 1 THEN s[1]
    ELSE LET m == max_poblacion(SubSeq(s, 1, Len(s) - 1))
         IN  IF clave_poblacion(s[Len(s)]) > clave_poblacion(m) THEN s[Len(s)] ELSE m

\* min(s, key=clave_poblacion) of a non-empty s: the first minimal element
RECURSIVE min_poblacion(_)
min_poblacion(s) ==
    IF Len(s) = 1 THEN s[1]
    ELSE LET m == min_poblacion(SubSeq(s, 1, Len(s) - 1))
         IN  IF clave_poblacion(s[Len(s)]) < clave_poblacion(m) THEN s[Len(s)] ELSE m

\* sum(p['poblacion'] for p in s), sum(p['superficie'] for p in s)
RECURSIVE suma_poblacion(_)
suma_poblacion(s) ==
    IF s = <<>> THEN 0 ELSE Head(s).poblacion + suma_poblacion(Tail(s))

RECURSIVE suma_superficie(_)
suma_superficie(s) ==
    IF s = <<>> THEN 0 ELSE Head(s).superficie + suma_superficie(Tail(s))

\* the dict built by the loop  continentes[c] = continentes.get(c, 0) + 1
RECURSIVE contar_continentes(_)
contar_continentes(s) ==
    IF s = <<>> THEN <<>>
    ELSE LET d == contar_continentes(SubSeq(s, 1, Len(s) - 1))
             c == s[Len(s)].continente
         IN  IF c \in DOMAIN d THEN [d EXCEPT ![c] = @ + 1]
             ELSE [k \in DOMAIN d \cup {c} |-> IF k = c THEN 1 ELSE d[k]]

\* ------------------------------------------------------------ inputs

India == <<"I", "n", "d", "i", "a">>
Indiana == <<"I", "n", "d", "i", "a", "n", "a">>
PeruAcento == <<"P", "e", "r", "u_acute">>
peru == <<"p", "e", "r", "u">>
Asia == <<"A", "s", "i", "a">>
Siete == <<"7">>
CeroSiete == <<"0", "7">>
Diez == <<"1", "0">>

\* what the user may type at a name prompt, a number prompt, the continent prompt
Nombres == {<<" ">>, India, Indiana, PeruAcento, peru}
Numeros == {Siete, Diez, <<"sup2">>, <<"-", "7">>, <<"a">>}
Continentes == {<<" ">>, Asia}

Fila(n, p, s, c) == [nombre |-> n, poblacion |-> p, superficie |-> s, continente |-> c]

\* rows a paises.csv may hold when the program starts
FilasMuestra ==
    { Fila(PeruAcento, Siete, Diez, Asia),
      Fila(peru, CeroSiete, Diez, <<>>),
      Fila(India, Diez, Siete, None),
      Fila(<<>>, Siete, Diez, Asia),
      Fila(Indiana, <<"a">>, Siete, Asia),
      Fila(India, <<"sup2">>, Siete, Asia),
      Fila(India, Siete, None, None) }

SeqHasta(S, n) == UNION {[1..k -> S] : k \in 0..n}

ArchivosIniciales ==
    {[existe |-> FALSE, filas |-> <<>>]}
        \cup {[existe |-> TRUE, filas |-> f] : f \in SeqHasta(FilasMuestra, MaxFilas)}

\* ------------------------------------------------------------ the program

Init ==
    /\ pc = "inicio"
    /\ catalog = <<>>
    /\ archivo \in ArchivosIniciales
    /\ opcion = ""
    /\ sub = ""
    /\ entrada = <<>>
    /\ mensaje = ""
    /\ mostrado = <<>>
    /\ stats = <<>>

\* the command returns and the while loop of menu() goes round
Volver == pc' = "bucle"

\* an uncaught exception ends the process with a traceback
Excepcion(nombre) == pc' = "terminado" /\ mensaje' = nombre

\* menu(), line 214: paises_catalogo = leer_archivo(), which first creates the
\* file when it does not exist
Iniciar ==
    /\ pc = "inicio"
    /\ archivo' = [existe |-> TRUE, filas |-> archivo.filas]
    /\ IF leer_error(archivo.filas) # ""
       THEN Excepcion(leer_error(archivo.filas)) /\ UNCHANGED catalog
       ELSE /\ catalog' = leer_archivo(archivo.filas)
            /\ Volver
            /\ mensaje' = ""
    /\ UNCHANGED <<opcion, sub, entrada, mostrado, stats>>

\* menu(), lines 216-227: the menu is printed and the prompt waits for an option
MostrarMenu ==
    /\ pc = "bucle"
    /\ pc' = "opcion"
    /\ opcion' = ""
    /\ sub' = ""
    /\ entrada' = <<>>
    /\ mensaje' = "--- MENU ---"
    /\ mostrado' = <<>>
    /\ stats' = <<>>
    /\ UNCHANGED <<catalog, archivo>>

\* the call guardar_archivo(paises) and the print that follows it
GuardarYAvisar(paises, io, aviso) ==
    /\ archivo' = ArchivoTras(paises, io)
    /\ IF io = "ok" THEN mensaje' = aviso /\ Volver ELSE Excepcion("OSError")

\* the inputs are read one prompt at a time: a rejected name ends the command
\* before the other prompts are shown
agregar_pais(entrada_nombre) ==
    LET nombre == strip(entrada_nombre)
    IN  /\ pc = "opcion"
        /\ opcion' = "1" /\ sub' = "" /\ entrada' = entrada_nombre
        /\ mostrado' = <<>> /\ stats' = <<>>
        /\ IF nombre = <<>>
           THEN mensaje' = "Nombre vacio." /\ Volver /\ UNCHANGED <<catalog, archivo>>
           ELSE IF buscar_pais(catalog, nombre) # <<>>
           THEN mensaje' = "El pais ya existe." /\ Volver /\ UNCHANGED <<catalog, archivo>>
           ELSE \E poblacion \in Numeros, superficie \in Numeros,
                   entrada_continente \in Continentes :
                LET continente == strip(entrada_continente)
                IN  IF ~(isdigit(poblacion) /\ isdigit(superficie)) \/ continente = <<>>
                    THEN /\ mensaje' = "Datos invalidos."
                         /\ Volver /\ UNCHANGED <<catalog, archivo>>
                    ELSE IF ~int_ok(poblacion) \/ ~int_ok(superficie)
                    THEN Excepcion("ValueError") /\ UNCHANGED <<catalog, archivo>>
                    ELSE /\ Len(catalog) < MaxPaises
                         /\ catalog' = Append(catalog,
                                              [nombre |-> nombre,
                                               poblacion |-> int(poblacion),
                                               superficie |-> int(superficie),
                                               continente |-> continente])
                         /\ \E io \in ResultadosIO :
                                GuardarYAvisar(catalog', io, "Pais agregado.")

\* the target, had it been the last match
UltimoEncontrado(encontrados) == encontrados[Len(encontrados)]

\* pais = encontrados[0]
PrimerEncontrado(encontrados) == encontrados[1]

actualizar_pais(nombre) ==
    LET encontrados == buscar_pais(catalog, nombre)
        i == PrimerEncontrado(encontrados)
    IN  /\ pc = "opcion"
        /\ opcion' = "2" /\ sub' = "" /\ entrada' = nombre
        /\ mostrado' = <<>> /\ stats' = <<>>
        /\ IF encontrados = <<>>
           THEN mensaje' = "No encontrado." /\ Volver /\ UNCHANGED <<catalog, archivo>>
           ELSE \E poblacion \in Numeros, superficie \in Numeros :
                IF ~(isdigit(poblacion) /\ isdigit(superficie))
                THEN /\ mensaje' = "Valores invalidos."
                     /\ Volver /\ UNCHANGED <<catalog, archivo>>
                ELSE IF ~int_ok(poblacion)
                THEN Excepcion("ValueError") /\ UNCHANGED <<catalog, archivo>>
                ELSE IF ~int_ok(superficie)
                THEN /\ catalog' = [catalog EXCEPT ![i].poblacion = int(poblacion)]
                     /\ Excepcion("ValueError")
                     /\ UNCHANGED archivo
                ELSE /\ catalog' = [catalog EXCEPT ![i].poblacion = int(poblacion),
                                                   ![i].superficie = int(superficie)]
                     /\ \E io \in ResultadosIO :
                            GuardarYAvisar(catalog', io, "Datos actualizados.")

\* a command that prints and changes neither the catalog nor the file
SoloLectura(op, eleccion, texto) ==
    /\ pc = "opcion"
    /\ opcion' = op
    /\ sub' = eleccion
    /\ entrada' = texto
    /\ UNCHANGED <<catalog, archivo>>

\* print(lista if lista else aviso)
ImprimirLista(lista, aviso) ==
    /\ mostrado' = lista
    /\ mensaje' = IF lista = <<>> THEN aviso ELSE "lista"
    /\ stats' = <<>>
    /\ Volver

\* menu(), case "3"
Buscar(nombre) ==
    /\ SoloLectura("3", "", nombre)
    /\ ImprimirLista(Elegir(catalog, buscar_pais(catalog, nombre)),
                     "El pais ingresado no existe en el catalogo.")

filtrar_continente(cont) ==
    /\ SoloLectura("4", "", <<>>)
    /\ IF \E i \in DOMAIN catalog : catalog[i].continente = None
       THEN Excepcion("AttributeError") /\ UNCHANGED <<mostrado, stats>>
       ELSE ImprimirLista(
                SelectSeq(catalog,
                          LAMBDA p : normalizar(cont) = normalizar(p.continente)),
                "Ningun pais encontrado.")

\* filtrar_poblacion and filtrar_superficie: campo names the dict key compared
FiltrarRango(op, campo, entrada_minimo, entrada_maximo) ==
    /\ SoloLectura(op, "", <<>>)
    /\ IF ~int_ok(entrada_minimo) \/ ~int_ok(entrada_maximo)
       THEN Excepcion("ValueError") /\ UNCHANGED <<mostrado, stats>>
       ELSE LET minimo == int(entrada_minimo)
                maximo == int(entrada_maximo)
            IN  ImprimirLista(
                    SelectSeq(catalog,
                              LAMBDA p : minimo <= p[campo] /\ p[campo] <= maximo),
                    "Ningun pais encontrado.")

filtrar_poblacion(entrada_minimo, entrada_maximo) ==
    FiltrarRango("5", "poblacion", entrada_minimo, entrada_maximo)

filtrar_superficie(entrada_minimo, entrada_maximo) ==
    FiltrarRango("6", "superficie", entrada_minimo, entrada_maximo)

\* for p in lista: print(p)
ImprimirCadaUno(lista) ==
    /\ mostrado' = lista
    /\ mensaje' = ""
    /\ stats' = <<>>
    /\ Volver

\* ordenar_por_nombre, had it sorted the list in place (paises_catalogo.sort)
ordenar_por_nombre_en_sitio ==
    /\ pc = "opcion"
    /\ opcion' = "7"
    /\ sub' = "a"
    /\ entrada' = <<>>
    /\ catalog' = sorted(catalog, "nombre", FALSE)
    /\ UNCHANGED archivo
    /\ ImprimirCadaUno(catalog')

ordenar_por_nombre ==
    /\ SoloLectura("7", "a", <<>>)
    /\ ImprimirCadaUno(sorted(catalog, "nombre", FALSE))

ordenar_por_poblacion ==
    /\ SoloLectura("7", "b", <<>>)
    /\ ImprimirCadaUno(sorted(catalog, "poblacion", FALSE))

ordenar_por_superficie(asc) ==
    /\ SoloLectura("7", IF asc THEN "c" ELSE "d", <<>>)
    /\ ImprimirCadaUno(sorted(catalog, "superficie", ~asc))

\* menu(), case "7" with a choice that is none of a, b, c, d: nothing is printed
SubmenuOtro ==
    /\ SoloLectura("7", "z", <<>>)
    /\ ImprimirCadaUno(<<>>)

estadisticas ==
    /\ SoloLectura("8", "", <<>>)
    /\ mostrado' = <<>>
    /\ Volver
    /\ IF catalog = <<>>
       THEN mensaje' = "Catalogo vacio." /\ stats' = <<>>
       ELSE /\ mensaje' = "estadisticas"
            /\ stats' = <<[mayor |-> max_poblacion(catalog),
                           menor |-> min_poblacion(catalog),
                           prom_pob |-> <<suma_poblacion(catalog), Len(catalog)>>,
                           prom_sup |-> <<suma_superficie(catalog), Len(catalog)>>,
                           continentes |-> contar_continentes(catalog)]>>

mostrar_catalogo ==
    /\ SoloLectura("9", "", <<>>)
    /\ ImprimirCadaUno(catalog)

\* menu(), case "0"
Salir ==
    /\ pc = "opcion"
    /\ pc' = "terminado"
    /\ opcion' = "0"
    /\ sub' = ""
    /\ entrada' = <<>>
    /\ mensaje' = "Fin del programa."
    /\ mostrado' = <<>>
    /\ stats' = <<>>
    /\ UNCHANGED <<catalog, archivo>>

\* menu(), case _
OpcionInvalida ==
    /\ SoloLectura("otra", "", <<>>)
    /\ Volver
    /\ mensaje' = "Opcion invalida."
    /\ mostrado' = <<>>
    /\ stats' = <<>>

Next ==
    \/ Iniciar
    \/ MostrarMenu
    \/ \E n \in Nombres : agregar_pais(n)
    \/ \E n \in Nombres : actualizar_pais(n)
    \/ \E n \in Nombres : Buscar(n)
    \/ \E c \in Continentes : filtrar_continente(c)
    \/ \E a \in Numeros, b \in Numeros : filtrar_poblacion(a, b)
    \/ \E a \in Numeros, b \in Numeros : filtrar_superficie(a, b)
    \/ ordenar_por_nombre
    \/ ordenar_por_poblacion
    \/ \E asc \in BOOLEAN : ordenar_por_superficie(asc)
    \/ SubmenuOtro
    \/ estadisticas
    \/ mostrar_catalogo
    \/ Salir
    \/ OpcionInvalida

Spec == Init /\ [][Next]_vars

\* ------------------------------------------------------------ the query functions alone

asia == <<"a", "s", "i", "a">>

Pais(n, p, s, c) == [nombre |-> n, poblacion |-> p, superficie |-> s, continente |-> c]

\* records a catalog may hold; populations and areas tie and differ
PaisesMuestra ==
    { Pais(India, 7, 10, Asia),
      Pais(Indiana, 10, 30, asia),
      Pais(peru, 7, 10, Asia),
      Pais(PeruAcento, 10, 7, <<>>) }

\* the program at the top of its loop with some catalog loaded
InitConsultas ==
    /\ pc = "bucle"
    /\ catalog \in SeqHasta(PaisesMuestra, MaxLista)
    /\ archivo = [existe |-> TRUE, filas |-> guardar_archivo(catalog)]
    /\ opcion = ""
    /\ sub = ""
    /\ entrada = <<>>
    /\ mensaje = ""
    /\ mostrado = <<>>
    /\ stats = <<>>

NextConsultas ==
    \/ MostrarMenu
    \/ ordenar_por_nombre
    \/ ordenar_por_poblacion
    \/ \E asc \in BOOLEAN : ordenar_por_superficie(asc)
    \/ estadisticas

SpecConsultas == InitConsultas /\ [][NextConsultas]_vars

\* ------------------------------------------------------------ properties

Exitos == {"Pais agregado.", "Datos actualizados."}

Primero(S) == CHOOSE i \in S : \A j \in S : i <= j

\* the positions whose normalized name contains the normalized query
Coincidencias(paises, consulta) ==
    LET buscado == normalizar(consulta)
    IN  {i \in DOMAIN paises : Contiene(normalizar(paises[i].nombre), buscado)}

Unico(paises) ==
    \A i, j \in DOMAIN paises :
        i # j => normalizar(paises[i].nombre) # normalizar(paises[j].nombre)

\* C1: an add whose name is not empty after trimming is rejected as a
\* duplicate if and only if some record's normalized name EQUALS the
\* normalized new name (a name merely contained in a longer one is accepted).
C1_DuplicadoSiiIgual ==
    [][(opcion' = "1" /\ strip(entrada') # <<>>)
        => ((mensaje' = "El pais ya existe.")
            <=> \E i \in DOMAIN catalog :
                    normalizar(catalog[i].nombre) = normalizar(entrada'))]_vars

\* C2: in every state no two distinct records have names that normalize to
\* the same form.
C2_SinDuplicados == Unico(catalog)

\* the rows of the file that load keeps have pairwise different normalized names
FilasUnicas(filas) ==
    \A i, j \in DOMAIN filas :
        (/\ i # j
         /\ FilaResultado(filas[i]) = "aceptada"
         /\ FilaResultado(filas[j]) = "aceptada")
            => normalizar(filas[i].nombre) # normalizar(filas[j].nombre)

\* C2 (amended): load keeps the names of the file's rows as they are, so the
\* loaded catalog has no two equal normalized names when the kept rows have
\* none; and no add or update creates such a pair in a catalog that has none.
C2_NoCreaDuplicados ==
    [][catalog' # catalog
        => ((IF pc = "inicio" THEN FilasUnicas(archivo.filas) ELSE Unico(catalog))
            => Unico(catalog'))]_vars

\* C2 witness: an add was rejected for a name that differs from a record's only in case
\* and accents
C2_Testigo ==
    /\ pc = "bucle" /\ opcion = "1" /\ mensaje = "El pais ya existe."
    /\ Unico(catalog)
    /\ \E i \in DOMAIN catalog :
          /\ catalog[i].nombre # strip(entrada)
          /\ normalizar(catalog[i].nombre) = normalizar(entrada)

NombreYNumerosValidos ==
    \A i \in DOMAIN catalog :
        /\ catalog[i].nombre # <<>>
        /\ catalog[i].poblacion \in Nat
        /\ catalog[i].superficie \in Nat

\* C3: in every state every record has a non-empty name, a non-negative
\* integer population and area, and a non-empty continent.
C3_TodosValidos ==
    /\ NombreYNumerosValidos
    /\ \A i \in DOMAIN catalog : catalog[i].continente \notin {<<>>, None}

\* C3 (amended): in every state every record has a non-empty name and a
\* non-negative integer population and area; every record that add appends
\* has a non-empty continent, and no command changes a record's continent
\* (a loaded record keeps the continent field of its row, empty or missing).
C3_ValidosSalvoContinenteCargado ==
    /\ []NombreYNumerosValidos
    /\ [][pc # "inicio"
            => /\ \A i \in DOMAIN catalog' \ DOMAIN catalog :
                    /\ catalog'[i].continente # None
                    /\ strip(catalog'[i].continente) # <<>>
               /\ \A i \in DOMAIN catalog \cap DOMAIN catalog' :
                    catalog'[i].continente = catalog[i].continente]_vars

\* C3 witness: a record loaded without a continent, followed by one add appended
C3_Testigo ==
    /\ pc = "bucle" /\ mensaje = "Pais agregado."
    /\ Len(catalog) = 2
    /\ catalog[1].continente \in {<<>>, None}
    /\ catalog[2].continente = Asia

\* C4: an add or update that is rejected, or whose save fails, leaves the
\* in-memory catalog exactly as it was.
C4_TodoONada ==
    [][(opcion' \in {"1", "2"} /\ mensaje' \notin Exitos) => catalog' = catalog]_vars

\* C5: after every successful add or update, loading the file just written
\* yields the in-memory catalog, record for record.
C5_ArchivoIgualCatalogo ==
    (pc = "bucle" /\ mensaje \in Exitos)
        => /\ leer_error(archivo.filas) = ""
           /\ leer_archivo(archivo.filas) = catalog

SinNone(paises) ==
    [i \in DOMAIN paises |->
        [paises[i] EXCEPT !.continente = IF @ = None THEN <<>> ELSE @]]

\* C5 (amended): after every successful add or update, loading the file just
\* written yields the in-memory catalog, record for record, except that a
\* continent missing in memory (None) is read back as the empty string.
C5_ArchivoIgualSalvoNone ==
    (pc = "bucle" /\ mensaje \in Exitos)
        => /\ leer_error(archivo.filas) = ""
           /\ leer_archivo(archivo.filas) = SinNone(catalog)

\* C5 witness: a successful command on a catalog that holds a record with no continent
C5_Testigo ==
    /\ pc = "bucle" /\ mensaje \in Exitos
    /\ Len(catalog) = 2
    /\ \E i \in DOMAIN catalog : catalog[i].continente = None

\* C6: an update changes the first record, in catalog order, whose normalized
\* name contains the normalized query, and only its population and area;
\* when no record matches it reports not found and changes nothing.
C6_ActualizaElPrimero ==
    [][opcion' = "2"
        => \A m \in {Coincidencias(catalog, entrada')} :
              IF m = {}
              THEN /\ mensaje' = "No encontrado."
                   /\ catalog' = catalog
                   /\ archivo' = archivo
              ELSE \A i \in {Primero(m)} :
                   /\ mensaje' # "No encontrado."
                   /\ DOMAIN catalog' = DOMAIN catalog
                   /\ \A j \in DOMAIN catalog \ {i} : catalog'[j] = catalog[j]
                   /\ catalog'[i].nombre = catalog[i].nombre
                   /\ catalog'[i].continente = catalog[i].continente
                   /\ mensaje' = "Datos actualizados."
                       => /\ catalog'[i].poblacion \in {int(Siete), int(Diez)}
                          /\ catalog'[i].superficie \in {int(Siete), int(Diez)}
                          /\ archivo'.filas = guardar_archivo(catalog')]_vars

\* C6 witness: an update whose query matches two records changed the first and not the second
C6_Testigo ==
    /\ pc = "bucle" /\ opcion = "2" /\ mensaje = "Datos actualizados."
    /\ Coincidencias(catalog, entrada) = {1, 2}
    /\ catalog[1].poblacion # catalog[2].poblacion
    /\ catalog[1].superficie # catalog[2].superficie

\* C7: once started, the process ends only when the user chooses option 0
\* (stated for the runs in which no save fails).
C7_SoloTerminaConCero ==
    (pc = "terminado" /\ opcion # "" /\ mensaje # "OSError") => opcion = "0"

Permutaciones(n) ==
    {f \in [1..n -> 1..n] : \A i, j \in 1..n : i # j => f[i] # f[j]}

\* salida holds the records of paises ordered by area, non-decreasing when asc
\* and non-increasing otherwise, records of equal area in their order in paises
OrdenadoEstable(salida, paises, asc) ==
    /\ Len(salida) = Len(paises)
    /\ \E f \in Permutaciones(Len(paises)) :
          /\ \A k \in DOMAIN salida : salida[k] = paises[f[k]]
          /\ \A k, l \in DOMAIN salida :
                k < l =>
                    /\ IF asc
                       THEN paises[f[k]].superficie <= paises[f[l]].superficie
                       ELSE paises[f[k]].superficie >= paises[f[l]].superficie
                    /\ paises[f[k]].superficie = paises[f[l]].superficie => f[k] < f[l]

\* C8: the listing by area is a permutation of the catalog, non-increasing
\* when descending and non-decreasing when ascending, in which records of
\* equal area keep their catalog order.
C8_OrdenPorSuperficieEstable ==
    (pc = "bucle" /\ opcion = "7" /\ sub \in {"c", "d"})
        => OrdenadoEstable(mostrado, catalog, sub = "c")

\* C8 witness: the descending listing of three records of which the first and the last
\* tie: the one of greater area, then the two in catalog order
C8_Testigo ==
    /\ pc = "bucle" /\ opcion = "7" /\ sub = "d"
    /\ Len(catalog) = 3
    /\ catalog[1].superficie = catalog[3].superficie
    /\ catalog[1] # catalog[3]
    /\ catalog[2].superficie > catalog[1].superficie
    /\ mostrado = <<catalog[2], catalog[1], catalog[3]>>

RECURSIVE SumaConteos(_, _)
SumaConteos(d, claves) ==
    IF claves = {} THEN 0
    ELSE LET c == CHOOSE x \in claves : TRUE
         IN  d[c] + SumaConteos(d, claves \ {c})

\* C9: on an empty catalog the statistics report the empty catalog and
\* nothing else; otherwise the record of maximum population and the record
\* of minimum population are the first such in catalog order, and the
\* per-continent counts, keyed by the raw continent, sum to the number of
\* records.
C9_Estadisticas ==
    (pc = "bucle" /\ opcion = "8")
        => IF catalog = <<>>
           THEN mensaje = "Catalogo vacio." /\ stats = <<>>
           ELSE LET n == DOMAIN catalog
                    maximos == {i \in n : \A j \in n :
                                    catalog[j].poblacion <= catalog[i].poblacion}
                    minimos == {i \in n : \A j \in n :
                                    catalog[j].poblacion >= catalog[i].poblacion}
                    conteos == stats[1].continentes
                IN  /\ Len(stats) = 1
                    /\ stats[1].mayor = catalog[Primero(maximos)]
                    /\ stats[1].menor = catalog[Primero(minimos)]
                    /\ DOMAIN conteos = {catalog[i].continente : i \in n}
                    /\ \A c \in DOMAIN conteos :
                          conteos[c] = Cardinality({i \in n : catalog[i].continente = c})
                    /\ SumaConteos(conteos, DOMAIN conteos) = Len(catalog)

\* C9 witness: statistics of a catalog in which two different records tie for the
\* maximum and two for the minimum population
C9_Testigo ==
    /\ pc = "bucle" /\ opcion = "8"
    /\ Len(catalog) = 3
    /\ Len(stats) = 1
    /\ \E i, j \in DOMAIN catalog :
          /\ i < j
          /\ catalog[i] # catalog[j]
          /\ catalog[i].poblacion = catalog[j].poblacion
          /\ stats[1].mayor = catalog[i]
          /\ catalog[j].poblacion = stats[1].mayor.poblacion
    /\ Cardinality(DOMAIN stats[1].continentes) = 2

\* C10: the catalog only grows by appending: no command removes or reorders
\* records or changes a name or a continent; the commands other than add and
\* update leave the catalog and the file as they are; an add changes nothing
\* but the end of the list, an update at most one record.
C10_SoloCreceAlFinal ==
    [][pc # "inicio"
        => /\ Len(catalog') \in {Len(catalog), Len(catalog) + 1}
           /\ \A i \in DOMAIN catalog :
                 /\ catalog'[i].nombre = catalog[i].nombre
                 /\ catalog'[i].continente = catalog[i].continente
           /\ opcion' \notin {"1", "2"} => (catalog' = catalog /\ archivo' = archivo)
           /\ opcion' = "1" => SubSeq(catalog', 1, Len(catalog)) = catalog
           /\ opcion' = "2"
                 => /\ Len(catalog') = Len(catalog)
                    /\ Cardinality({i \in DOMAIN catalog : catalog'[i] # catalog[i]}) <= 1]_vars

\* C10 witness: a listing by name that differs from the catalog, which is left in its order
C10_Testigo ==
    /\ pc = "bucle" /\ opcion = "7" /\ sub = "a"
    /\ Len(catalog) = 2
    /\ mostrado = <<catalog[2], catalog[1]>>
    /\ catalog[1] # catalog[2]

====
